---- MODULE Spec2Model ----
(***************************************************************************)
(* Model of analytics.py: cargar_datos, transformar_datos (WHERE / SELECT  *)
(* / GROUP BY), analizar_clientes (LEFT JOIN / dense rank window / top 3)  *)
(* and the main block that runs them and writes the two outputs.           *)
(*                                                                         *)
(* A DataFrame is [columnas, filas]: columnas says whether the columns the *)
(* code reads by name are present (a missing one is a KeyError), filas is  *)
(* the sequence of rows.  A missing value of an object column is NA, a     *)
(* missing value of a numeric column is NaN.  Python's None is the empty   *)
(* set and a held value x is {x}.                                          *)
(***************************************************************************)
EXTENDS Integers, Sequences, FiniteSets, TLC

VARIABLES archivo_csv, archivo_json, pc, ventas, clientes, df_ventas,
          merged, top_clientes, csv_out, parquet_out, error

vars == <<archivo_csv, archivo_json, pc, ventas, clientes, df_ventas,
          merged, top_clientes, csv_out, parquet_out, error>>

(***************************************************************************)
(* Module-level configuration of analytics.py                              *)
(***************************************************************************)
REGION_FILTRO == "Norte"

CATEGORIAS_VALIDAS == {"Tecnología", "Periféricos", "Software"}

\* the bound of merged["rank_ventas"] <= 3
K == 3

(***************************************************************************)
(* Values                                                                  *)
(***************************************************************************)
None == {}

Some(x) == {x}

Val(o) == CHOOSE x \in o : TRUE

\* missing value of an object (string) column
NA == "<NA>"

\* missing value of a numeric column; every ordered comparison with it is False
NaN == -1

\* code-point order of the strings the model uses, as groupby(sort=True) sorts keys
Lexico == <<"<NA>", "Hogar", "Norte", "Periféricos", "Software", "Sur", "Tecnología", "norte">>

Orden(s) == CHOOSE i \in DOMAIN Lexico : Lexico[i] = s

RECURSIVE Mcd(_, _)
Mcd(a, b) == IF b = 0 THEN a ELSE Mcd(b, a % b)

(***************************************************************************)
(* Bounds of the inputs                                                    *)
(***************************************************************************)
\* rows of a sales file in the runs of transformar_datos alone
MaxVentas == 2

\* rows of a customer file in the runs of analizar_clientes
MaxClientes == 2

\* largest cantidad of a sale in the runs of analizar_clientes
MaxCantidad == 2

\* rows of either file in the runs of the whole main block
MaxFilas == 1

RegionesVentas == {"Norte", "norte", NA}

CategoriasVentas == CATEGORIAS_VALIDAS \cup {"Hogar", NA}

RegionesClientes == {"Norte", "Sur"}

Segmentos == {"A", "B", NA}

Valores == {1, 2}

SeqHasta(S, n) == UNION {[1..m -> S] : m \in 0..n}

FilasVenta(cantidades, precios) ==
    [region : RegionesVentas, categoria : CategoriasVentas,
     cantidad : cantidades, precio : precios]

\* customer rows; cliente is the customer's own attribute, here its position
TablasClientes(n) ==
    {[i \in DOMAIN s |-> [cliente |-> i, region |-> s[i][1], segmento |-> s[i][2]]] :
        s \in SeqHasta(RegionesClientes \X Segmentos, n)}

(***************************************************************************)
(* cargar_datos                                                            *)
(***************************************************************************)
\* partial result: the sales table is returned although the JSON read failed
cargar_datos_parcial(csv, json) ==
    IF csv.estado = "ok"
    THEN <<Some([columnas |-> csv.columnas, filas |-> csv.filas]),
           IF json.estado = "ok"
           THEN Some([columnas |-> json.columnas, filas |-> json.filas])
           ELSE None>>
    ELSE <<None, None>>

\* try: read both; except FileNotFoundError / Exception: return None, None
cargar_datos(csv, json) ==
    IF csv.estado = "ok" /\ json.estado = "ok"
    THEN <<Some([columnas |-> csv.columnas, filas |-> csv.filas]),
           Some([columnas |-> json.columnas, filas |-> json.filas])>>
    ELSE <<None, None>>

(***************************************************************************)
(* transformar_datos                                                       *)
(***************************************************************************)
\* upper/lower case folded before the comparison
Minusculas(s) == IF s = "Norte" THEN "norte" ELSE s

MaskSinMayusculas(fila, region, categorias) ==
    /\ Minusculas(fila.region) = Minusculas(region)
    /\ fila.categoria \in categorias

\* (df["region"] == REGION_FILTRO) & (df["categoria"].isin(CATEGORIAS_VALIDAS));
\* a missing value equals no string and is in no list
Mask(fila, region, categorias) ==
    /\ fila.region # NA /\ fila.region = region
    /\ fila.categoria # NA /\ fila.categoria \in categorias

\* df.loc[mask].copy()
Filtrar(df, region, categorias) ==
    SelectSeq(df, LAMBDA fila : Mask(fila, region, categorias))

\* venta_total computed as cantidad + precio
DerivarSuma(df) ==
    [i \in DOMAIN df |->
        [region |-> df[i].region, categoria |-> df[i].categoria,
         cantidad |-> df[i].cantidad, precio |-> df[i].precio,
         venta_total |-> df[i].cantidad + df[i].precio]]

\* df_filtrado["venta_total"] = df_filtrado["cantidad"] * df_filtrado["precio"]
Derivar(df) ==
    [i \in DOMAIN df |->
        [region |-> df[i].region, categoria |-> df[i].categoria,
         cantidad |-> df[i].cantidad, precio |-> df[i].precio,
         venta_total |-> df[i].cantidad * df[i].precio]]

RECURSIVE Suma(_)
Suma(s) == IF s = <<>> THEN 0 ELSE Head(s) + Suma(Tail(s))

\* mean of a non-empty column, as the reduced fraction <<numerator, denominator>>
Media(s) ==
    LET g == Mcd(Suma(s), Len(s))
    IN  <<Suma(s) \div g, Len(s) \div g>>

Columna(df, col) == [i \in DOMAIN df |-> df[i][col]]

\* the group keys present; groupby drops the keys with a missing value (dropna=True)
Claves(df) ==
    {k \in {<<df[i].region, df[i].categoria>> : i \in DOMAIN df} :
        k[1] # NA /\ k[2] # NA}

ClaveMenorIgual(a, b) ==
    \/ Orden(a[1]) < Orden(b[1])
    \/ a[1] = b[1] /\ Orden(a[2]) <= Orden(b[2])

\* the keys in ascending order (groupby sorts them)
RECURSIVE OrdenarClaves(_)
OrdenarClaves(S) ==
    IF S = {} THEN <<>>
    ELSE LET m == CHOOSE k \in S : \A j \in S : ClaveMenorIgual(k, j)
         IN  <<m>> \o OrdenarClaves(S \ {m})

Grupo(df, clave) ==
    SelectSeq(df, LAMBDA fila : <<fila.region, fila.categoria>> = clave)

FilaAgregada(df, clave) ==
    [region |-> clave[1], categoria |-> clave[2],
     total_ventas |-> Suma(Columna(Grupo(df, clave), "venta_total")),
     promedio_precio |-> Media(Columna(Grupo(df, clave), "precio"))]

\* one row for every allowed category, the categories without rows with a total of 0
AgregarTodasCategorias(df) ==
    LET claves == OrdenarClaves({REGION_FILTRO} \X CATEGORIAS_VALIDAS)
    IN  [i \in DOMAIN claves |->
            IF Grupo(df, claves[i]) = <<>>
            THEN [region |-> claves[i][1], categoria |-> claves[i][2],
                  total_ventas |-> 0, promedio_precio |-> <<0, 1>>]
            ELSE FilaAgregada(df, claves[i])]

\* groupby(["region", "categoria"]).agg(total_ventas=sum, promedio_precio=mean).reset_index()
Agregar(df) ==
    LET claves == OrdenarClaves(Claves(df))
    IN  [i \in DOMAIN claves |-> FilaAgregada(df, claves[i])]

transformar_datos(df) ==
    Agregar(Derivar(Filtrar(df, REGION_FILTRO, CATEGORIAS_VALIDAS)))

(***************************************************************************)
(* analizar_clientes                                                       *)
(***************************************************************************)
Unir(izq, cliente, segmento) ==
    [region |-> izq.region, categoria |-> izq.categoria,
     total_ventas |-> izq.total_ventas, promedio_precio |-> izq.promedio_precio,
     cliente |-> cliente, segmento |-> segmento]

Coincidencias(izq, der) == SelectSeq(der, LAMBDA c : c.region = izq.region)

\* how="inner": a left row without a matching customer yields no row
MergeFilaInner(izq, der) ==
    LET m == Coincidencias(izq, der)
    IN  [j \in DOMAIN m |-> Unir(izq, m[j].cliente, m[j].segmento)]

\* the rows a left row yields: one per customer of its region, in the customers'
\* order, or one with the customer's columns missing
MergeFila(izq, der) ==
    LET m == Coincidencias(izq, der)
    IN  IF m = <<>> THEN <<Unir(izq, NaN, NA)>>
        ELSE [j \in DOMAIN m |-> Unir(izq, m[j].cliente, m[j].segmento)]

\* pd.merge(ventas, clientes, how="left", on="region"): left order is kept
RECURSIVE Merge(_, _)
Merge(izq, der) ==
    IF izq = <<>> THEN <<>>
    ELSE MergeFila(Head(izq), der) \o Merge(Tail(izq), der)

RECURSIVE Insertar(_, _)
Insertar(x, s) ==
    IF s = <<>> THEN <<x>>
    ELSE IF x >= Head(s) THEN <<x>> \o s
    ELSE <<Head(s)>> \o Insertar(x, Tail(s))

\* ascending=False: the values of a partition, largest first
RECURSIVE OrdenarDesc(_)
OrdenarDesc(s) ==
    IF s = <<>> THEN <<>> ELSE Insertar(Head(s), OrdenarDesc(Tail(s)))

\* method="min": tied values share the position of the first of them
RECURSIVE RangoMin(_, _)
RangoMin(o, i) ==
    IF i = 1 THEN 1
    ELSE IF o[i] = o[i - 1] THEN RangoMin(o, i - 1) ELSE i

\* method="dense": walking the sorted values, the rank grows by one at every
\* change of value
RECURSIVE RangoDenso(_, _)
RangoDenso(o, i) ==
    IF i = 1 THEN 1
    ELSE RangoDenso(o, i - 1) + (IF o[i] # o[i - 1] THEN 1 ELSE 0)

RangoDe(valor, valores) ==
    LET o == OrdenarDesc(valores)
        i == CHOOSE j \in DOMAIN o : o[j] = valor
    IN  RangoDenso(o, i)

Particion(df, segmento) == SelectSeq(df, LAMBDA f : f.segmento = segmento)

ConRango(f, rango) ==
    [region |-> f.region, categoria |-> f.categoria,
     total_ventas |-> f.total_ventas, promedio_precio |-> f.promedio_precio,
     cliente |-> f.cliente, segmento |-> f.segmento, rank_ventas |-> rango]

\* groupby("segmento", dropna=False): the rows without segmento are a partition
RankearConNulos(df) ==
    [i \in DOMAIN df |->
        ConRango(df[i], RangoDe(df[i].total_ventas,
                                Columna(Particion(df, df[i].segmento), "total_ventas")))]

\* merged.groupby("segmento")["total_ventas"].rank(method="dense", ascending=False):
\* groupby drops the rows whose key is missing, their rank is NaN
Rankear(df) ==
    [i \in DOMAIN df |->
        ConRango(df[i],
                 IF df[i].segmento = NA THEN NaN
                 ELSE RangoDe(df[i].total_ventas,
                              Columna(Particion(df, df[i].segmento), "total_ventas")))]

\* rank_ventas < 3
DentroDelTopEstricto(rango) == rango # NaN /\ rango < K

\* merged["rank_ventas"] <= 3; False for NaN
DentroDelTop(rango) == rango # NaN /\ rango <= K

\* merged[merged["rank_ventas"] <= 3].copy()
Top(df) == SelectSeq(df, LAMBDA f : DentroDelTop(f.rank_ventas))

analizar_clientes(v, c) == Top(Rankear(Merge(v, c)))

(***************************************************************************)
(* The files the run finds on disk                                         *)
(***************************************************************************)
Archivo(estado, columnas, filas) ==
    [estado |-> estado, columnas |-> columnas, filas |-> filas]

\* a readable file holds a table with the expected columns, or one lacking a
\* column the code reads; an unreadable one is missing or malformed
Archivos(tablas) ==
    {Archivo("ok", TRUE, t) : t \in tablas}
        \cup {Archivo("ok", FALSE, <<>>), Archivo("no_existe", FALSE, <<>>),
              Archivo("ilegible", FALSE, <<>>)}

\* sales tables of the allowed region with at most one sale per allowed category,
\* in the order of the categories
VentasUnaPorCategoria ==
    {s \in SeqHasta([region : {REGION_FILTRO}, categoria : CATEGORIAS_VALIDAS,
                     cantidad : 1..MaxCantidad, precio : Valores],
                    Cardinality(CATEGORIAS_VALIDAS)) :
        \A i, j \in DOMAIN s : i < j => Orden(s[i].categoria) < Orden(s[j].categoria)}

Inicio ==
    /\ pc = "inicio"
    /\ ventas = None /\ clientes = None /\ df_ventas = None /\ merged = None
    /\ top_clientes = None /\ csv_out = None /\ parquet_out = None
    /\ error = ""

\* the whole main block, on small files of every kind
Init ==
    /\ archivo_csv \in Archivos(SeqHasta(FilasVenta({1}, {1}), MaxFilas))
    /\ archivo_json \in Archivos(TablasClientes(MaxFilas))
    /\ Inicio

\* transformar_datos on every sales table of at most MaxVentas rows
InitTransformar ==
    /\ archivo_csv \in {Archivo("ok", TRUE, t) :
                            t \in SeqHasta(FilasVenta(Valores, Valores), MaxVentas)}
    /\ archivo_json = Archivo("ok", TRUE, <<>>)
    /\ Inicio

\* analizar_clientes on the aggregated tables and every customer table of at most
\* MaxClientes rows
InitAnalizar ==
    /\ archivo_csv \in {Archivo("ok", TRUE, t) : t \in VentasUnaPorCategoria}
    /\ archivo_json \in {Archivo("ok", TRUE, t) : t \in TablasClientes(MaxClientes)}
    /\ Inicio

(***************************************************************************)
(* The main block                                                          *)
(***************************************************************************)
\* ventas, clientes = cargar_datos(RUTA_CSV, RUTA_JSON)
CargarDatos ==
    /\ pc = "inicio"
    /\ ventas' = cargar_datos(archivo_csv, archivo_json)[1]
    /\ clientes' = cargar_datos(archivo_csv, archivo_json)[2]
    /\ pc' = "cargado"
    /\ UNCHANGED <<archivo_csv, archivo_json, df_ventas, merged, top_clientes,
                   csv_out, parquet_out, error>>

\* if ventas is not None and clientes is not None
DatosCargados == ventas # None /\ clientes # None

\* else: print("No se pudieron cargar los datos ...")
NoCargados ==
    /\ pc = "cargado"
    /\ ~DatosCargados
    /\ pc' = "fin"
    /\ UNCHANGED <<archivo_csv, archivo_json, ventas, clientes, df_ventas, merged,
                   top_clientes, csv_out, parquet_out, error>>

\* df_ventas = transformar_datos(ventas); a missing column raises, and the
\* except clause of the main block ends the run
Transformar ==
    /\ pc = "cargado"
    /\ DatosCargados
    /\ IF Val(ventas).columnas
       THEN /\ df_ventas' = Some(transformar_datos(Val(ventas).filas))
            /\ pc' = "transformado"
            /\ error' = error
       ELSE /\ df_ventas' = df_ventas
            /\ pc' = "fin"
            /\ error' = "transformar_datos"
    /\ UNCHANGED <<archivo_csv, archivo_json, ventas, clientes, merged,
                   top_clientes, csv_out, parquet_out>>

\* the sales CSV written before the analysis instead of after it
AnalizarTrasGuardar ==
    /\ pc = "transformado"
    /\ csv_out' = df_ventas
    /\ IF Val(clientes).columnas
       THEN /\ merged' = Some(Rankear(Merge(Val(df_ventas), Val(clientes).filas)))
            /\ top_clientes' = Some(analizar_clientes(Val(df_ventas), Val(clientes).filas))
            /\ pc' = "analizado"
            /\ error' = error
       ELSE /\ merged' = merged
            /\ top_clientes' = top_clientes
            /\ pc' = "fin"
            /\ error' = "analizar_clientes"
    /\ UNCHANGED <<archivo_csv, archivo_json, ventas, clientes, df_ventas,
                   parquet_out>>

\* top_clientes = analizar_clientes(df_ventas, clientes); merged is the ranked
\* table the function filters
Analizar ==
    /\ pc = "transformado"
    /\ IF Val(clientes).columnas
       THEN /\ merged' = Some(Rankear(Merge(Val(df_ventas), Val(clientes).filas)))
            /\ top_clientes' = Some(analizar_clientes(Val(df_ventas), Val(clientes).filas))
            /\ pc' = "analizado"
            /\ error' = error
       ELSE /\ merged' = merged
            /\ top_clientes' = top_clientes
            /\ pc' = "fin"
            /\ error' = "analizar_clientes"
    /\ UNCHANGED <<archivo_csv, archivo_json, ventas, clientes, df_ventas,
                   csv_out, parquet_out>>

\* df_ventas.to_csv(...); the write can fail (no directory "resultados")
GuardarCSV ==
    /\ pc = "analizado"
    /\ \E escrito \in BOOLEAN :
          IF escrito
          THEN csv_out' = df_ventas /\ pc' = "csv_escrito" /\ error' = error
          ELSE csv_out' = csv_out /\ pc' = "fin" /\ error' = "to_csv"
    /\ UNCHANGED <<archivo_csv, archivo_json, ventas, clientes, df_ventas, merged,
                   top_clientes, parquet_out>>

\* top_clientes.to_parquet(...); the write can fail (no parquet engine)
GuardarParquet ==
    /\ pc = "csv_escrito"
    /\ \E escrito \in BOOLEAN :
          IF escrito
          THEN parquet_out' = top_clientes /\ pc' = "fin" /\ error' = error
          ELSE parquet_out' = parquet_out /\ pc' = "fin" /\ error' = "to_parquet"
    /\ UNCHANGED <<archivo_csv, archivo_json, ventas, clientes, df_ventas, merged,
                   top_clientes, csv_out>>

Next ==
    \/ CargarDatos
    \/ NoCargados
    \/ Transformar
    \/ Analizar
    \/ GuardarCSV
    \/ GuardarParquet

Spec == Init /\ [][Next]_vars

NextTransformar ==
    \/ CargarDatos
    \/ Transformar

SpecTransformar == InitTransformar /\ [][NextTransformar]_vars

NextAnalizar ==
    \/ CargarDatos
    \/ Transformar
    \/ Analizar

SpecAnalizar == InitAnalizar /\ [][NextAnalizar]_vars

(***************************************************************************)
(* Properties                                                              *)
(***************************************************************************)
RECURSIVE SumaSobre(_, _)
SumaSobre(S, f) ==
    IF S = {} THEN 0
    ELSE LET x == CHOOSE y \in S : TRUE
         IN  f[x] + SumaSobre(S \ {x}, f)

\* the filter as the documentation of transformar_datos states it
PasaFiltro(f) ==
    f.region = "Norte" /\ f.categoria \in {"Tecnología", "Periféricos", "Software"}

MismaClave(a, b) == a.region = b.region /\ a.categoria = b.categoria

Entrada == Val(ventas).filas

Pasan == {j \in DOMAIN Entrada : PasaFiltro(Entrada[j])}

Importe == [j \in DOMAIN Entrada |-> Entrada[j].cantidad * Entrada[j].precio]

\* C1: every row transformar_datos returns has total_ventas equal to the sum of
\* cantidad * precio over exactly the input rows that pass the filter and have
\* the row's (region, categoria), and there is exactly one output row for each
\* distinct (region, categoria) among the rows that pass the filter.
C1_TotalPorGrupo ==
    pc = "transformado" =>
        LET out == Val(df_ventas)
        IN  /\ \A i \in DOMAIN out :
                  out[i].total_ventas =
                      SumaSobre({j \in Pasan : MismaClave(Entrada[j], out[i])}, Importe)
            /\ \A i, k \in DOMAIN out : MismaClave(out[i], out[k]) => i = k
            /\ {<<out[i].region, out[i].categoria>> : i \in DOMAIN out}
                  = {<<Entrada[j].region, Entrada[j].categoria>> : j \in Pasan}

\* two sales of different amounts were added up in one group
C1_Witness ==
    /\ pc = "transformado"
    /\ \E i \in DOMAIN Val(df_ventas) : \E j, k \in Pasan :
          /\ j # k
          /\ MismaClave(Entrada[j], Val(df_ventas)[i])
          /\ MismaClave(Entrada[k], Val(df_ventas)[i])
          /\ Importe[j] # Importe[k]

\* C2: the filter keeps exactly the rows of the target region (exact match,
\* case-sensitive) with an allowed categoria: a row failing either condition is
\* in no output group, a row satisfying both is in exactly one, and the totals
\* of the groups add up to the amounts of the rows satisfying both.
C2_FiltroExacto ==
    pc = "transformado" =>
        LET out == Val(df_ventas)
        IN  /\ \A j \in DOMAIN Entrada :
                  Cardinality({i \in DOMAIN out : MismaClave(Entrada[j], out[i])})
                      = IF PasaFiltro(Entrada[j]) THEN 1 ELSE 0
            /\ Suma(Columna(out, "total_ventas")) = SumaSobre(Pasan, Importe)

\* a sale of region "norte" in an allowed category was left out, another kept
C2_Witness ==
    /\ pc = "transformado"
    /\ Len(Val(df_ventas)) = 1
    /\ \E j \in DOMAIN Entrada :
          Entrada[j].region = "norte" /\ Entrada[j].categoria \in CATEGORIAS_VALIDAS

Izquierda == Val(df_ventas)

Clientes == Val(clientes).filas

Unidas == Val(merged)

\* the joined rows that carry the left row izq
FilasDe(izq) ==
    {n \in DOMAIN Unidas :
        /\ MismaClave(Unidas[n], izq)
        /\ Unidas[n].total_ventas = izq.total_ventas
        /\ Unidas[n].promedio_precio = izq.promedio_precio}

ClientesDe(izq) == {c \in DOMAIN Clientes : Clientes[c].region = izq.region}

\* C3: in the left join every aggregated row appears once for each customer of
\* its region, and exactly once with the customer's fields missing when no
\* customer has that region; no left row is dropped, every joined row carries a
\* left row, and a customer whose region matches no left row never appears.
C3_LeftJoin ==
    pc = "analizado" =>
        /\ \A i \in DOMAIN Izquierda :
              LET filas == FilasDe(Izquierda[i])
                  suyos == ClientesDe(Izquierda[i])
              IN  /\ \A c \in suyos :
                        Cardinality({n \in filas :
                            /\ Unidas[n].cliente = Clientes[c].cliente
                            /\ Unidas[n].segmento = Clientes[c].segmento}) = 1
                  /\ suyos # {} => Cardinality(filas) = Cardinality(suyos)
                  /\ suyos = {} =>
                        /\ Cardinality(filas) = 1
                        /\ \A n \in filas :
                              Unidas[n].cliente = NaN /\ Unidas[n].segmento = NA
        /\ \A n \in DOMAIN Unidas : \E i \in DOMAIN Izquierda : n \in FilasDe(Izquierda[i])
        /\ \A c \in DOMAIN Clientes :
              (\A i \in DOMAIN Izquierda : Izquierda[i].region # Clientes[c].region)
                  => \A n \in DOMAIN Unidas : Unidas[n].cliente # Clientes[c].cliente

\* two aggregated rows joined with a customer of their region while another
\* customer is of a region without sales
C3_Witness ==
    /\ pc = "analizado"
    /\ Len(Izquierda) = 2
    /\ Len(Unidas) = 2
    /\ \E c, d \in DOMAIN Clientes :
          Clientes[c].region = "Norte" /\ Clientes[d].region = "Sur"

FilasDeSegmento(s) == {n \in DOMAIN Unidas : Unidas[n].segmento = s}

TotalesDe(s) == {Unidas[n].total_ventas : n \in FilasDeSegmento(s)}

RangosDe(s) == {Unidas[n].rank_ventas : n \in FilasDeSegmento(s)}

\* C4: after the window rank, in every segmento partition the ranks assigned are
\* exactly 1..m, m the number of distinct total_ventas of the partition; equal
\* totals share a rank, a larger total has a smaller rank, the largest has rank 1.
C4_RangoDenso ==
    pc = "analizado" =>
        \A s \in {Unidas[n].segmento : n \in DOMAIN Unidas} \ {NA} :
            /\ RangosDe(s) = 1..Cardinality(TotalesDe(s))
            /\ \A a, b \in FilasDeSegmento(s) :
                  /\ Unidas[a].total_ventas = Unidas[b].total_ventas
                        => Unidas[a].rank_ventas = Unidas[b].rank_ventas
                  /\ Unidas[a].total_ventas > Unidas[b].total_ventas
                        => Unidas[a].rank_ventas < Unidas[b].rank_ventas
                  /\ (\A c \in FilasDeSegmento(s) :
                          Unidas[a].total_ventas >= Unidas[c].total_ventas)
                        => Unidas[a].rank_ventas = 1

\* a partition where two rows tie on the largest total and a third is smaller
C4_Witness ==
    /\ pc = "analizado"
    /\ \E a, b, c \in DOMAIN Unidas :
          /\ a # b
          /\ Unidas[a].segmento = "A" /\ Unidas[b].segmento = "A"
          /\ Unidas[c].segmento = "A"
          /\ Unidas[a].total_ventas = Unidas[b].total_ventas
          /\ Unidas[c].total_ventas < Unidas[a].total_ventas
          /\ Unidas[a].rank_ventas = 1 /\ Unidas[c].rank_ventas = 2

Retenidas == Val(top_clientes)

\* C5: analizar_clientes returns a row of the ranked table if and only if its
\* rank_ventas is a rank of at most K: every returned row is a ranked row of
\* rank <= K and every ranked row of rank <= K is returned, once.
C5_TopK ==
    pc = "analizado" =>
        /\ \A k \in DOMAIN Retenidas :
              /\ Retenidas[k].rank_ventas \in 1..K
              /\ \E n \in DOMAIN Unidas : Unidas[n] = Retenidas[k]
        /\ \A n \in DOMAIN Unidas :
              Unidas[n].rank_ventas \in 1..K
                  <=> \E k \in DOMAIN Retenidas : Retenidas[k] = Unidas[n]
        /\ Len(Retenidas) = Cardinality({n \in DOMAIN Unidas : Unidas[n].rank_ventas \in 1..K})

\* a partition keeps more than K rows, ties sharing the ranks up to K
C5_Witness ==
    /\ pc = "analizado"
    /\ Cardinality({k \in DOMAIN Retenidas : Retenidas[k].segmento = "A"}) > K
    /\ Cardinality({k \in DOMAIN Retenidas :
            Retenidas[k].segmento = "A" /\ Retenidas[k].rank_ventas = K}) = 2

CargaFallida == archivo_csv.estado # "ok" \/ archivo_json.estado # "ok"

\* C7: when a read fails (a missing file or any other error) cargar_datos returns
\* (None, None) and the pipeline is not invoked: no stage runs and no output is
\* written; and no stage ever runs with only one of the two tables loaded.
C7_CargaFallida ==
    /\ (pc # "inicio" /\ CargaFallida) =>
          /\ ventas = None /\ clientes = None
          /\ df_ventas = None /\ merged = None /\ top_clientes = None
          /\ csv_out = None /\ parquet_out = None
          /\ error = ""
          /\ pc \in {"cargado", "fin"}
    /\ (ventas = None \/ clientes = None) =>
          /\ df_ventas = None /\ merged = None /\ top_clientes = None
          /\ csv_out = None /\ parquet_out = None
          /\ error = ""

\* the sales file was readable, the customer file was not, and the run is over
C7_Witness ==
    /\ pc = "fin"
    /\ archivo_csv.estado = "ok" /\ archivo_csv.columnas /\ Len(archivo_csv.filas) = 1
    /\ archivo_json.estado = "ilegible"

\* a loaded sales row lacks region or categoria, or a joined row lacks segmento
FilaSinClave ==
    \/ /\ ventas # None
       /\ \E j \in DOMAIN Val(ventas).filas :
             Val(ventas).filas[j].region = NA \/ Val(ventas).filas[j].categoria = NA
    \/ /\ merged # None
       /\ \E n \in DOMAIN Val(merged) : Val(merged)[n].segmento = NA

\* C8: when a row lacks a required key value the run fails with an error and
\* writes no output: the row is never dropped silently while the pipeline goes
\* on to produce its outputs.
C8_FallaRapido ==
    FilaSinClave =>
        /\ csv_out = None /\ parquet_out = None
        /\ pc = "fin" => error # ""

SinFilasFiltradas ==
    /\ DatosCargados
    /\ Val(ventas).columnas
    /\ \A j \in DOMAIN Entrada : ~PasaFiltro(Entrada[j])

\* C9: when no sales row passes the filter no error is raised: transformar_datos
\* returns an empty table, analizar_clientes returns an empty table for any
\* customer table, and the outputs written are empty; with an empty set of
\* allowed categories the aggregated table is empty for every sales table.
C9_EntradaVacia ==
    /\ SinFilasFiltradas =>
          /\ error # "transformar_datos"
          /\ pc \in {"transformado", "analizado", "csv_escrito"} => df_ventas = Some(<<>>)
          /\ df_ventas \in {None, Some(<<>>)}
          /\ Val(clientes).columnas =>
                /\ error # "analizar_clientes"
                /\ pc \in {"analizado", "csv_escrito"} => top_clientes = Some(<<>>)
                /\ top_clientes \in {None, Some(<<>>)}
          /\ csv_out \in {None, Some(<<>>)}
          /\ parquet_out \in {None, Some(<<>>)}
          /\ (pc = "fin" /\ error = "") =>
                csv_out = Some(<<>>) /\ parquet_out = Some(<<>>)
    /\ (DatosCargados /\ Val(ventas).columnas) =>
          Agregar(Derivar(Filtrar(Entrada, REGION_FILTRO, {}))) = <<>>

\* a sale that fails the filter and one customer: both outputs written, empty
C9_Witness ==
    /\ pc = "fin"
    /\ SinFilasFiltradas
    /\ Len(Entrada) = 1
    /\ Len(Clientes) = 1
    /\ csv_out = Some(<<>>)
    /\ parquet_out = Some(<<>>)

\* C10: an output is written only after transformar_datos and analizar_clientes
\* have both completed without error, the CSV before the parquet: the parquet
\* exists only if the CSV exists, what is written is what the stages returned,
\* and if either stage raises no output is written.
C10_OrdenSalidas ==
    /\ parquet_out # None => csv_out # None /\ parquet_out = top_clientes
    /\ csv_out # None =>
          /\ df_ventas # None /\ top_clientes # None
          /\ csv_out = df_ventas
    /\ error \in {"transformar_datos", "analizar_clientes"} =>
          csv_out = None /\ parquet_out = None

\* the CSV was written and the write of the parquet failed
C10_Witness ==
    /\ pc = "fin"
    /\ error = "to_parquet"
    /\ csv_out # None
    /\ parquet_out = None

====
